---- MODULE Spec2Model ----
(***************************************************************************)
(* Model of the "vimified" console editor of src/main.cpp: the Editor      *)
(* object (buffer, cursor, viewport, mode, command line, dirty flag), its  *)
(* key handlers edit_loop and command_loop, the command dispatcher         *)
(* execute_command and the text file load/save conversion.                 *)
(*                                                                         *)
(* A character is a one-character string, a std::string is a sequence of   *)
(* characters, the buffer is a sequence of lines.  Keys are the integer    *)
(* byte codes _getch() returns.  Cursor coordinates are 0-based as in the  *)
(* source; sequences are 1-based, hence the +1 when indexing.              *)
(***************************************************************************)
EXTENDS Integers, Sequences, FiniteSets, TLC

(* ------------------------------ bounds -------------------------------- *)
\* edit operations on their own: the largest number of lines and the largest
\* line length an operation may produce
MaxLines == 2
MaxCol == 1
\* sessions: the largest size (characters and line breaks) of the document
MaxDoc == 2
\* token analytics called on their own: tokens per sequence, n and topk
MaxToks == 5
MaxN == 3
MaxK == 3
\* bytes of a content given to the token statistics
MaxContent == 4
\* cursor movement on its own: lines of the document and length of a line
MaxMoveLines == 3
MaxMoveCol == 2
\* the viewport computed on its own: cursor coordinates and offsets before the call
MaxViewCur == 24
MaxViewOff == 3
\* an edit undone by backspace: lines of the document and length of a line
MaxUndoLines == 2
MaxUndoCol == 2

(* ------------------------- characters and keys ------------------------ *)
NL == "\n"
CR == "\r"

\* (char)ch for the printable byte codes 32..126 (the grave accent, 96, cannot
\* be written in a string and is left out; no key set of the model uses it)
Chr ==
    32 :> " " @@ 33 :> "!" @@ 34 :> "\"" @@ 35 :> "#" @@ 36 :> "$" @@ 37 :> "%" @@
    38 :> "&" @@ 39 :> "'" @@ 40 :> "(" @@ 41 :> ")" @@ 42 :> "*" @@ 43 :> "+" @@
    44 :> "," @@ 45 :> "-" @@ 46 :> "." @@ 47 :> "/" @@ 48 :> "0" @@ 49 :> "1" @@
    50 :> "2" @@ 51 :> "3" @@ 52 :> "4" @@ 53 :> "5" @@ 54 :> "6" @@ 55 :> "7" @@
    56 :> "8" @@ 57 :> "9" @@ 58 :> ":" @@ 59 :> ";" @@ 60 :> "<" @@ 61 :> "=" @@
    62 :> ">" @@ 63 :> "?" @@ 64 :> "@" @@ 65 :> "A" @@ 66 :> "B" @@ 67 :> "C" @@
    68 :> "D" @@ 69 :> "E" @@ 70 :> "F" @@ 71 :> "G" @@ 72 :> "H" @@ 73 :> "I" @@
    74 :> "J" @@ 75 :> "K" @@ 76 :> "L" @@ 77 :> "M" @@ 78 :> "N" @@ 79 :> "O" @@
    80 :> "P" @@ 81 :> "Q" @@ 82 :> "R" @@ 83 :> "S" @@ 84 :> "T" @@ 85 :> "U" @@
    86 :> "V" @@ 87 :> "W" @@ 88 :> "X" @@ 89 :> "Y" @@ 90 :> "Z" @@ 91 :> "[" @@
    92 :> "\\" @@ 93 :> "]" @@ 94 :> "^" @@ 95 :> "_" @@ 97 :> "a" @@
    98 :> "b" @@ 99 :> "c" @@ 100 :> "d" @@ 101 :> "e" @@ 102 :> "f" @@ 103 :> "g" @@
    104 :> "h" @@ 105 :> "i" @@ 106 :> "j" @@ 107 :> "k" @@ 108 :> "l" @@ 109 :> "m" @@
    110 :> "n" @@ 111 :> "o" @@ 112 :> "p" @@ 113 :> "q" @@ 114 :> "r" @@ 115 :> "s" @@
    116 :> "t" @@ 117 :> "u" @@ 118 :> "v" @@ 119 :> "w" @@ 120 :> "x" @@ 121 :> "y" @@
    122 :> "z" @@ 123 :> "{" @@ 124 :> "|" @@ 125 :> "}" @@ 126 :> "~"

ESC == 27
BS == 8
ENTER == 13
LF == 10
DEL == 127
EXT == 224
UP == 72
DOWN == 80
LEFT == 75
RIGHT == 77
DELETE == 83
TAB == 9

Printable(ch) == ch >= 32 /\ ch <= 126

(* --------------------------- string helpers --------------------------- *)
Min2(a, b) == IF a < b THEN a ELSE b
Max2(a, b) == IF a > b THEN a ELSE b

\* std::clamp(v, lo, hi) for lo <= hi
clamp(v, lo, hi) == IF v < lo THEN lo ELSE IF hi < v THEN hi ELSE v

\* std::string::substr(pos) and substr(0, n)
substr_from(s, pos) == SubSeq(s, pos + 1, Len(s))
substr_to(s, n) == SubSeq(s, 1, n)

\* std::string::insert(pos, 1, c)
str_insert(s, pos, c) == substr_to(s, pos) \o <<c>> \o substr_from(s, pos)

\* std::string::erase(pos, 1)
str_erase(s, pos) == substr_to(s, pos) \o substr_from(s, pos + 1)

\* std::vector::insert(begin()+i, v) and erase(begin()+i)
vec_insert(v, i, e) == SubSeq(v, 1, i) \o <<e>> \o SubSeq(v, i + 1, Len(v))
vec_erase(v, i) == SubSeq(v, 1, i) \o SubSeq(v, i + 2, Len(v))

IsPrefix(p, s) == Len(p) <= Len(s) /\ SubSeq(s, 1, Len(p)) = p

\* the document sizes the edit operations are explored on
Fits(buf) == Len(buf) <= MaxLines /\ \A i \in 1..Len(buf) : Len(buf[i]) <= MaxCol

(* ------------------------------ the Editor ---------------------------- *)
VARIABLES
    buffer_,    \* std::vector<std::string>
    filename_,
    status_,    \* <<message, argument>>: the message text and the string appended to it
    mode_,      \* "EDIT" or "COMMAND"
    cmdbuf_,
    dirty_,
    cur_y_, cur_x_,
    off_y_, off_x_,
    files,      \* the file system: readable path -> content
    pending,    \* second byte of an extended key not yet read by _getch(), or 0
    pc,         \* "running", "quit" (run() returned 0), "crashed" (abnormal end)
    fn_arg,     \* the arguments of an analytics function called on its own
    fn_ret      \* [done, val]: whether it has returned, and its return value

vars == <<buffer_, filename_, status_, mode_, cmdbuf_, dirty_, cur_y_, cur_x_,
          off_y_, off_x_, files, pending, pc, fn_arg, fn_ret>>

\* the variables of the Editor session
session_vars == <<buffer_, filename_, status_, mode_, cmdbuf_, dirty_, cur_y_, cur_x_,
                  off_y_, off_x_, files, pending, pc>>

\* no analytics function is called on its own
NoCall == fn_arg = <<>> /\ fn_ret = [done |-> FALSE, val |-> <<>>]

\* the part of the Editor the edit operations read and write
Ed == [buf |-> buffer_, y |-> cur_y_, x |-> cur_x_, dirty |-> dirty_]

\* the cursor addresses a position of the buffer
CursorOK(e) ==
    /\ e.buf # <<>>
    /\ e.y >= 0 /\ e.y < Len(e.buf)
    /\ e.x >= 0 /\ e.x <= Len(e.buf[e.y + 1])

(* ------------------------------ editing ------------------------------- *)
\* mutant: the column is not advanced
insert_char_noadvance(e, c) ==
    LET b == IF e.buf = <<>> THEN << <<>> >> ELSE e.buf
        line == b[e.y + 1]
        x == clamp(e.x, 0, Len(line))
    IN [buf |-> [b EXCEPT ![e.y + 1] = str_insert(line, x, c)],
        y |-> e.y, x |-> x, dirty |-> TRUE]

insert_char(e, c) ==
    LET b == IF e.buf = <<>> THEN << <<>> >> ELSE e.buf
        line == b[e.y + 1]
        x == clamp(e.x, 0, Len(line))
    IN [buf |-> [b EXCEPT ![e.y + 1] = str_insert(line, x, c)],
        y |-> e.y, x |-> x + 1, dirty |-> TRUE]

newline(e) ==
    LET line == e.buf[e.y + 1]
        tail == substr_from(line, e.x)
        b == [e.buf EXCEPT ![e.y + 1] = substr_to(line, e.x)]
    IN [buf |-> vec_insert(b, e.y + 1, tail), y |-> e.y + 1, x |-> 0, dirty |-> TRUE]

\* mutant: at column 0 the line is not merged into the previous one
backspace_no_merge(e) ==
    IF e.x > 0 THEN
        [e EXCEPT !.buf[e.y + 1] = str_erase(e.buf[e.y + 1], e.x - 1),
                  !.x = e.x - 1, !.dirty = TRUE]
    ELSE IF e.y > 0 THEN [e EXCEPT !.dirty = TRUE]
    ELSE e

backspace(e) ==
    IF e.x > 0 THEN
        [e EXCEPT !.buf[e.y + 1] = str_erase(e.buf[e.y + 1], e.x - 1),
                  !.x = e.x - 1, !.dirty = TRUE]
    ELSE IF e.y > 0 THEN
        LET prev_len == Len(e.buf[e.y])
            b == [e.buf EXCEPT ![e.y] = e.buf[e.y] \o e.buf[e.y + 1]]
        IN [buf |-> vec_erase(b, e.y), y |-> e.y - 1, x |-> prev_len, dirty |-> TRUE]
    ELSE e

\* mutant: the following line is not joined
del_key_no_join(e) ==
    LET line == e.buf[e.y + 1] IN
    IF e.x < Len(line) THEN
        [e EXCEPT !.buf[e.y + 1] = str_erase(line, e.x), !.dirty = TRUE]
    ELSE IF e.y < Len(e.buf) - 1 THEN [e EXCEPT !.dirty = TRUE]
    ELSE e

del_key(e) ==
    LET line == e.buf[e.y + 1] IN
    IF e.x < Len(line) THEN
        [e EXCEPT !.buf[e.y + 1] = str_erase(line, e.x), !.dirty = TRUE]
    ELSE IF e.y < Len(e.buf) - 1 THEN
        LET b == [e.buf EXCEPT ![e.y + 1] = line \o e.buf[e.y + 2]]
        IN [e EXCEPT !.buf = vec_erase(b, e.y + 1), !.dirty = TRUE]
    ELSE e

move_up(e) ==
    LET y == IF e.y > 0 THEN e.y - 1 ELSE e.y
    IN [e EXCEPT !.y = y, !.x = Min2(e.x, Len(e.buf[y + 1]))]

move_down(e) ==
    LET y == IF e.y < Len(e.buf) - 1 THEN e.y + 1 ELSE e.y
    IN [e EXCEPT !.y = y, !.x = Min2(e.x, Len(e.buf[y + 1]))]

\* mutant: Left at column 0 lands on the start of the previous line
move_left_to_line_start(e) ==
    IF e.x > 0 THEN [e EXCEPT !.x = e.x - 1]
    ELSE IF e.y > 0 THEN [e EXCEPT !.y = e.y - 1, !.x = 0]
    ELSE e

move_left(e) ==
    IF e.x > 0 THEN [e EXCEPT !.x = e.x - 1]
    ELSE IF e.y > 0 THEN [e EXCEPT !.y = e.y - 1, !.x = Len(e.buf[e.y])]
    ELSE e

move_right(e) ==
    IF e.x < Len(e.buf[e.y + 1]) THEN [e EXCEPT !.x = e.x + 1]
    ELSE IF e.y < Len(e.buf) - 1 THEN [e EXCEPT !.y = e.y + 1, !.x = 0]
    ELSE e

\* the two std::clamp calls that end edit_loop
clamp_cursor(e) ==
    LET y == clamp(e.y, 0, Len(e.buf) - 1)
    IN [e EXCEPT !.y = y, !.x = clamp(e.x, 0, Len(e.buf[y + 1]))]

\* the keys of edit_loop's default case that reach insert_char
Inserts(ch) == Printable(ch) /\ ch \notin {104, 106, 107, 108}

\* the switch of edit_loop on key ch (c2: the second byte after 224), without
\* the mode change of ESC, followed by the clamp
edit_switch(e, ch, c2) ==
    IF ch = ESC THEN e
    ELSE IF ch = ENTER \/ ch = LF THEN newline(e)
    ELSE IF ch = BS THEN backspace(e)
    ELSE IF ch = EXT THEN
        IF c2 = UP THEN move_up(e)
        ELSE IF c2 = DOWN THEN move_down(e)
        ELSE IF c2 = LEFT THEN move_left(e)
        ELSE IF c2 = RIGHT THEN move_right(e)
        ELSE IF c2 = DELETE THEN del_key(e)
        ELSE e
    ELSE IF ch = DEL THEN del_key(e)
    ELSE IF ch = 104 THEN move_left(e)
    ELSE IF ch = 106 THEN move_down(e)
    ELSE IF ch = 107 THEN move_up(e)
    ELSE IF ch = 108 THEN move_right(e)
    ELSE IF Printable(ch) THEN insert_char(e, Chr[ch])
    ELSE e

edit_loop(e, ch, c2) == clamp_cursor(edit_switch(e, ch, c2))

\* edit_loop on key ch indexes the buffer inside its bounds: always from a
\* valid cursor; on an empty buffer only insert_char, which first pushes a line
EditDefined(e, ch) ==
    \/ CursorOK(e)
    \/ e.buf = <<>> /\ e.y = 0 /\ Inserts(ch)

(* -------------------------- buffer insertion -------------------------- *)
\* the segments of text: split at "\n", "\r" dropped
\* (the loop over text[lo..hi], halved so that long texts stay in reach: the
\* segment open at the end of the first half goes on in the second half)
RECURSIVE split_range(_, _, _)
split_range(text, lo, hi) ==
    IF lo > hi THEN << <<>> >>
    ELSE IF lo = hi THEN
        (IF text[lo] = NL THEN << <<>>, <<>> >>
         ELSE IF text[lo] # CR THEN << <<text[lo]>> >>
         ELSE << <<>> >>)
    ELSE
        LET mid == (lo + hi) \div 2
            a == split_range(text, lo, mid)
            b == split_range(text, mid + 1, hi)
        IN SubSeq(a, 1, Len(a) - 1) \o <<a[Len(a)] \o b[1]>> \o Tail(b)

\* s: the segment already open when the loop starts
split_block(text, s) ==
    LET segs == split_range(text, 1, Len(text))
    IN [segs EXCEPT ![1] = s \o @]

\* the loop of buffer_.insert(begin() + cur_y_ + i, lines[i]) from lines[i]
\* (counted from 1) on: the lines land in order behind line y + i - 1
insert_lines(buf, y, lines, i) ==
    IF i > Len(lines) THEN buf
    ELSE SubSeq(buf, 1, y + i - 1) \o SubSeq(lines, i, Len(lines)) \o SubSeq(buf, y + i, Len(buf))

\* mutant: the cursor column is put one past the end of the inserted segment
insert_text_block_offbyone(e, text) ==
    IF text = <<>> THEN e
    ELSE
        LET lines == split_block(text, <<>>)
            tail == substr_from(e.buf[e.y + 1], e.x)
            b1 == [e.buf EXCEPT ![e.y + 1] = substr_to(e.buf[e.y + 1], e.x) \o lines[1]]
            b2 == insert_lines(b1, e.y, lines, 2)
            y == e.y + Len(lines) - 1
            x == Len(b2[y + 1]) + 1
        IN [buf |-> [b2 EXCEPT ![y + 1] = b2[y + 1] \o tail], y |-> y, x |-> x, dirty |-> TRUE]

insert_text_block(e, text) ==
    IF text = <<>> THEN e
    ELSE
        LET lines == split_block(text, <<>>)
            tail == substr_from(e.buf[e.y + 1], e.x)
            b1 == [e.buf EXCEPT ![e.y + 1] = substr_to(e.buf[e.y + 1], e.x) \o lines[1]]
            b2 == insert_lines(b1, e.y, lines, 2)
            y == e.y + Len(lines) - 1
            x == Len(b2[y + 1])
        IN [buf |-> [b2 EXCEPT ![y + 1] = b2[y + 1] \o tail], y |-> y, x |-> x, dirty |-> TRUE]

(* ---------------------------- file helpers --------------------------- *)
\* paths: a regular file, a path that can be neither read nor written (a
\* directory), and the default file name
FileF == <<"f">>
DirD == <<"d">>
Untitled == <<"u", "n", "t", "i", "t", "l", "e", "d", ".", "t", "x", "t">>
NoInitial == <<>>   \* argc < 2: initial == nullptr

Unwritable == {DirD}

\* std::optional<std::string>
read_text_file(fs, path) ==
    IF path \in DOMAIN fs THEN [ok |-> TRUE, val |-> fs[path]]
    ELSE [ok |-> FALSE, val |-> <<>>]

write_text_file(fs, path, content) ==
    IF path \in Unwritable THEN [ok |-> FALSE, fs |-> fs]
    ELSE [ok |-> TRUE,
          fs |-> [p \in DOMAIN fs \cup {path} |-> IF p = path THEN content ELSE fs[p]]]

IsSpace(c) == c \in {" ", "\t", NL, CR, "\f"}

RECURSIVE drop_space(_)
drop_space(s) == IF s # <<>> /\ IsSpace(Head(s)) THEN drop_space(Tail(s)) ELSE s

RECURSIVE drop_space_back(_)
drop_space_back(s) ==
    IF s # <<>> /\ IsSpace(s[Len(s)]) THEN drop_space_back(SubSeq(s, 1, Len(s) - 1)) ELSE s

trim_copy(s) == drop_space_back(drop_space(s))

\* operator>> in a loop: the whitespace-separated words of s
RECURSIVE split_ws_from(_, _)
split_ws_from(s, t) ==
    IF s = <<>> THEN (IF t = <<>> THEN <<>> ELSE <<t>>)
    ELSE IF IsSpace(Head(s)) THEN
        (IF t = <<>> THEN <<>> ELSE <<t>>) \o split_ws_from(Tail(s), <<>>)
    ELSE split_ws_from(Tail(s), Append(t, Head(s)))

split_ws(s) == split_ws_from(s, <<>>)

(* ------------------------------ open/save ----------------------------- *)
\* the session as one value: the Editor fields and the file system
Self ==
    [buffer_ |-> buffer_, filename_ |-> filename_, status_ |-> status_, mode_ |-> mode_,
     cmdbuf_ |-> cmdbuf_, dirty_ |-> dirty_, cur_y_ |-> cur_y_, cur_x_ |-> cur_x_,
     off_y_ |-> off_y_, off_x_ |-> off_x_, files |-> files]

ed(s) == [buf |-> s.buffer_, y |-> s.cur_y_, x |-> s.cur_x_, dirty |-> s.dirty_]
with_ed(s, e) ==
    [s EXCEPT !.buffer_ = e.buf, !.cur_y_ = e.y, !.cur_x_ = e.x, !.dirty_ = e.dirty]

NoArg == <<>>
Msg(text, arg) == <<text, arg>>

\* while (std::getline(iss, line)): the lines of text, a final "\r" popped
RECURSIVE getlines(_, _)
getlines(text, line) ==
    LET pop == IF line # <<>> /\ line[Len(line)] = CR THEN SubSeq(line, 1, Len(line) - 1)
               ELSE line
    IN IF text = <<>> THEN (IF line = <<>> THEN <<>> ELSE <<pop>>)
       ELSE IF Head(text) = NL THEN <<pop>> \o getlines(Tail(text), <<>>)
       ELSE getlines(Tail(text), Append(line, Head(text)))

\* the buffer open_file builds from the file content
parse_text(text) ==
    LET b == getlines(text, <<>>)
    IN IF Len(text) > 0 /\ text[Len(text)] = NL /\ (b = <<>> \/ b[Len(b)] # <<>>)
       THEN Append(b, <<>>)
       ELSE b

open_file(s, path) ==
    LET r == read_text_file(s.files, path)
        b == IF ~r.ok THEN << <<>> >> ELSE parse_text(r.val)
    IN [s EXCEPT !.buffer_ = b,
                 !.status_ = IF ~r.ok THEN Msg("New file: ", path) ELSE Msg("Opened ", path),
                 !.filename_ = path,
                 !.cur_y_ = 0, !.cur_x_ = 0, !.off_y_ = 0, !.off_x_ = 0,
                 !.dirty_ = FALSE]

\* the lines joined by "\n"
RECURSIVE join_lines(_, _)
join_lines(buf, i) ==
    IF i > Len(buf) THEN <<>>
    ELSE buf[i] \o (IF i + 1 <= Len(buf) THEN <<NL>> ELSE <<>>) \o join_lines(buf, i + 1)

\* the document sizes a session is explored on
FitsSession(buf) == Len(join_lines(buf, 1)) <= MaxDoc

\* mutant: the path becomes the file name although the write failed
save_file_renames_on_error(s, path) ==
    LET w == write_text_file(s.files, path, join_lines(s.buffer_, 1))
    IN IF w.ok THEN [s EXCEPT !.files = w.fs, !.filename_ = path,
                              !.status_ = Msg("Saved ", path), !.dirty_ = FALSE]
       ELSE [s EXCEPT !.status_ = Msg("Error: could not save ", path), !.filename_ = path]

save_file(s, path) ==
    LET w == write_text_file(s.files, path, join_lines(s.buffer_, 1))
    IN IF w.ok THEN [s EXCEPT !.files = w.fs, !.filename_ = path,
                              !.status_ = Msg("Saved ", path), !.dirty_ = FALSE]
       ELSE [s EXCEPT !.status_ = Msg("Error: could not save ", path)]

(* ------------------------------ rendering ----------------------------- *)
\* get_console_size on the window size the console reports
console_rows(rows) == IF rows < 4 THEN 24 ELSE rows
console_cols(cols) == IF cols < 20 THEN 80 ELSE cols

\* mutant: a cursor below or right of the viewport is put on its first row or column
ensure_visible_jumps(s, rows, cols) ==
    LET view_h == Max2(1, console_rows(rows) - 1)
        view_w == Max2(1, console_cols(cols))
        oy1 == IF s.cur_y_ < s.off_y_ THEN s.cur_y_ ELSE s.off_y_
        oy2 == IF s.cur_y_ >= oy1 + view_h THEN s.cur_y_ ELSE oy1
        ox1 == IF s.cur_x_ < s.off_x_ THEN s.cur_x_ ELSE s.off_x_
        ox2 == IF s.cur_x_ >= ox1 + view_w THEN s.cur_x_ ELSE ox1
    IN [s EXCEPT !.off_y_ = IF oy2 < 0 THEN 0 ELSE oy2,
                 !.off_x_ = IF ox2 < 0 THEN 0 ELSE ox2]

ensure_visible(s, rows, cols) ==
    LET view_h == Max2(1, console_rows(rows) - 1)
        view_w == Max2(1, console_cols(cols))
        oy1 == IF s.cur_y_ < s.off_y_ THEN s.cur_y_ ELSE s.off_y_
        oy2 == IF s.cur_y_ >= oy1 + view_h THEN s.cur_y_ - view_h + 1 ELSE oy1
        ox1 == IF s.cur_x_ < s.off_x_ THEN s.cur_x_ ELSE s.off_x_
        ox2 == IF s.cur_x_ >= ox1 + view_w THEN s.cur_x_ - view_w + 1 ELSE ox1
    IN [s EXCEPT !.off_y_ = IF oy2 < 0 THEN 0 ELSE oy2,
                 !.off_x_ = IF ox2 < 0 THEN 0 ELSE ox2]

(* ------------------------- number conversion -------------------------- *)
Digits == <<"0", "1", "2", "3", "4", "5", "6", "7", "8", "9">>
IsDigit(c) == \E i \in 1..10 : Digits[i] = c
DigitVal(c) == (CHOOSE i \in 1..10 : Digits[i] = c) - 1

\* numbers from USat on are represented by USat: no branch of the program
\* tells them apart (the largest threshold compared against is MAXL)
USat == 100000

\* decimal digits of ULONG_MAX (32-bit unsigned long of the Windows target)
\* and of ULLONG_MAX
ULongMaxDigits == <<"4", "2", "9", "4", "9", "6", "7", "2", "9", "5">>
ULLongMaxDigits == <<"1", "8", "4", "4", "6", "7", "4", "4", "0", "7",
                     "3", "7", "0", "9", "5", "5", "1", "6", "1", "5">>

RECURSIVE digit_prefix(_)
digit_prefix(s) ==
    IF s # <<>> /\ IsDigit(Head(s)) THEN <<Head(s)>> \o digit_prefix(Tail(s)) ELSE <<>>

RECURSIVE drop_zeros(_)
drop_zeros(d) == IF d # <<>> /\ Head(d) = "0" THEN drop_zeros(Tail(d)) ELSE d

\* d > m for digit strings of equal length
RECURSIVE digits_greater(_, _)
digits_greater(d, m) ==
    IF d = <<>> THEN FALSE
    ELSE IF DigitVal(Head(d)) # DigitVal(Head(m)) THEN DigitVal(Head(d)) > DigitVal(Head(m))
    ELSE digits_greater(Tail(d), Tail(m))

RECURSIVE digits_value(_, _)
digits_value(d, acc) ==
    IF d = <<>> THEN acc
    ELSE digits_value(Tail(d), Min2(acc * 10 + DigitVal(Head(d)), USat))

\* strtoul/strtoull as std::stoul/std::stoull call it: optional sign, then
\* digits; no digit throws std::invalid_argument, a magnitude above the
\* maximum throws std::out_of_range, a minus sign negates modulo 2^w
string_to_unsigned(str, maxdigits) ==
    LET neg == str # <<>> /\ Head(str) = "-"
        body == IF str # <<>> /\ Head(str) \in {"-", "+"} THEN Tail(str) ELSE str
        d == digit_prefix(body)
        z == drop_zeros(d)
        v == digits_value(z, 0)
    IN IF d = <<>> THEN [ok |-> FALSE, val |-> 0]
       ELSE IF Len(z) > Len(maxdigits) \/ (Len(z) = Len(maxdigits) /\ digits_greater(z, maxdigits))
            THEN [ok |-> FALSE, val |-> 0]
       ELSE [ok |-> TRUE, val |-> IF neg /\ v # 0 THEN USat ELSE v]

stoul(str) == string_to_unsigned(str, ULongMaxDigits)
stoull(str) == string_to_unsigned(str, ULLongMaxDigits)

(* -------------------------- token composition ------------------------- *)
SAFE_ALPHABET == <<"1", "2", "3">>
MAXL == 5000

RECURSIVE safe_pow_u64(_, _)
\* out = base^exp; the overflow return is out of reach for exp <= 10
safe_pow_u64(base, exp) == IF exp = 0 THEN 1 ELSE base * safe_pow_u64(base, exp - 1)

RECURSIVE perm_line(_, _, _)
perm_line(line, j, t) ==
    IF j < 0 THEN line
    ELSE perm_line([line EXCEPT ![j + 1] = SAFE_ALPHABET[(t % 3) + 1]], j - 1, t \div 3)

\* the output of the iterations i .. total-1 of the outer loop (the range
\* halved so that 5000 lines stay in reach)
RECURSIVE perm_lines(_, _, _)
perm_lines(len, i, total) ==
    IF i >= total THEN <<>>
    ELSE IF i + 1 = total THEN perm_line([k \in 1..len |-> "1"], len - 1, i) \o <<NL>>
    ELSE LET mid == (i + total) \div 2
         IN perm_lines(len, i, mid) \o perm_lines(len, mid, total)

compose_permutations(len, limit) ==
    IF len = 0 \/ len > 10 \/ limit = 0 THEN <<>>
    ELSE perm_lines(len, 0, Min2(safe_pow_u64(3, len), limit))

(* --------------------------- token analytics -------------------------- *)
\* the bytes the regular expression [A-Za-z0-9_] matches
WordChars == {Chr[k] : k \in (48..57) \cup (65..90) \cup {95} \cup (97..122)}

\* the last position of the match of [A-Za-z0-9_]+ that starts at i: the
\* quantifier is greedy
RECURSIVE match_end(_, _)
match_end(s, i) ==
    IF i + 1 <= Len(s) /\ s[i + 1] \in WordChars THEN match_end(s, i + 1) ELSE i

\* the matches std::sregex_iterator finds from position i on
RECURSIVE matches_from(_, _)
matches_from(s, i) ==
    IF i > Len(s) THEN <<>>
    ELSE IF s[i] \notin WordChars THEN matches_from(s, i + 1)
    ELSE <<SubSeq(s, i, match_end(s, i))>> \o matches_from(s, match_end(s, i) + 1)

tokenize_words(s) == matches_from(s, 1)

\* st.freq[t]++ for the tokens from number i on
RECURSIVE count_tokens(_, _, _)
count_tokens(toks, i, freq) ==
    IF i > Len(toks) THEN freq
    ELSE count_tokens(toks, i + 1,
             IF toks[i] \in DOMAIN freq THEN [freq EXCEPT ![toks[i]] = @ + 1]
             ELSE freq @@ (toks[i] :> 1))

\* mutant: the ratio is tokens over unique tokens
compute_token_stats_inverse_ratio(content) ==
    LET toks == tokenize_words(content)
        freq == count_tokens(toks, 1, <<>>)
        tokens == Len(toks)
        unique_tokens == Cardinality(DOMAIN freq)
    IN [chars |-> Len(content),
        lines |-> 1 + Len(SelectSeq(content, LAMBDA c : c = NL)),
        tokens |-> tokens, unique_tokens |-> unique_tokens, freq |-> freq,
        ttr |-> IF tokens # 0 THEN [num |-> tokens, den |-> unique_tokens]
                ELSE [num |-> 0, den |-> 1]]

\* the counting fields of TokenStats and the ratio unique_tokens / tokens as
\* the fraction the division is given (0.0 without tokens); the averages and
\* entropies, which do not enter the ratio, are left out
compute_token_stats(content) ==
    LET toks == tokenize_words(content)
        freq == count_tokens(toks, 1, <<>>)
        tokens == Len(toks)
        unique_tokens == Cardinality(DOMAIN freq)
    IN [chars |-> Len(content),
        lines |-> 1 + Len(SelectSeq(content, LAMBDA c : c = NL)),
        tokens |-> tokens, unique_tokens |-> unique_tokens, freq |-> freq,
        ttr |-> IF tokens # 0 THEN [num |-> unique_tokens, den |-> tokens]
                ELSE [num |-> 0, den |-> 1]]

\* counts[key]++ for the windows of n tokens that start at i, i+1, ... (from 0)
RECURSIVE count_windows(_, _, _, _)
count_windows(toks, n, i, counts) ==
    IF i + n > Len(toks) THEN counts
    ELSE LET key == SubSeq(toks, i + 1, i + n)
         IN count_windows(toks, n, i + 1,
                IF key \in DOMAIN counts THEN [counts EXCEPT ![key] = @ + 1]
                ELSE counts @@ (key :> 1))

\* mutant: the comparator is the wrong way round
sorted_by_count_ascending(counts) ==
    LET keys == DOMAIN counts
        m == Cardinality(keys)
    IN {v \in [1..m -> keys] :
          /\ \A i, j \in 1..m : i # j => v[i] # v[j]
          /\ \A i, j \in 1..m : i < j => counts[v[i]] <= counts[v[j]]}

\* the orders std::sort may leave the entries in: none stands before an entry
\* with a greater count; the order of entries with equal counts is unspecified
sorted_by_count(counts) ==
    LET keys == DOMAIN counts
        m == Cardinality(keys)
    IN {v \in [1..m -> keys] :
          /\ \A i, j \in 1..m : i # j => v[i] # v[j]
          /\ \A i, j \in 1..m : i < j => counts[v[i]] >= counts[v[j]]}

\* the vectors of <<n-gram, count>> that top_ngrams may return
top_ngrams(toks, n, topk) ==
    IF n = 0 \/ Len(toks) < n THEN {<<>>}
    ELSE LET counts == count_windows(toks, n, 0, <<>>)
         IN {[i \in 1..Min2(topk, Len(v)) |-> <<v[i], counts[v[i]]>>] :
                v \in sorted_by_count(counts)}

(* --------------------------- the dispatcher --------------------------- *)
\* what execute_command hands back: the session and "false"/"true" (the
\* returned quit flag), "throw" (an exception leaves it) or "ub" (it indexed
\* the buffer outside its bounds)
Ret(s, out) == [s |-> s, out |-> out]

\* insert_text_block(text) followed by the status assignment of the caller
insert_and_report(s, text, done) ==
    IF text = <<>> THEN Ret([s EXCEPT !.status_ = done], "false")
    ELSE IF ~CursorOK(ed(s)) THEN Ret(s, "ub")
    ELSE Ret([with_ed(s, insert_text_block(ed(s), text)) EXCEPT !.status_ = done], "false")

\* env: what the collaborators answer during the command: the captured
\* output of the shell (text1, text2), whether the temporary source could
\* be written (tmp_ok) and the rendered analytics report (report, never empty)
command_shell(s, cmd, env) ==
    LET out == trim_copy(env.text1)
    IN IF out = <<>> THEN Ret([s EXCEPT !.status_ = Msg("Command produced no output.", NoArg)], "false")
       ELSE insert_and_report(s, out, Msg("Command finished.", NoArg))

command_cpp(s, env) ==
    IF ~env.tmp_ok THEN Ret([s EXCEPT !.status_ = Msg("Failed to write temp source.", NoArg)], "false")
    ELSE IF trim_copy(env.text1) # <<>>
         THEN insert_and_report(s, trim_copy(env.text1), Msg("Program ran (output inserted).", NoArg))
    ELSE IF trim_copy(env.text2) # <<>>
         THEN insert_and_report(s, trim_copy(env.text2), Msg("Compilation failed (diagnostics inserted).", NoArg))
    ELSE Ret([s EXCEPT !.status_ = Msg("Program produced no output.", NoArg)], "false")

tok_stats(s, has_path, path, env) ==
    IF has_path /\ ~read_text_file(s.files, path).ok
    THEN Ret([s EXCEPT !.status_ = Msg("tok: cannot open ", path)], "false")
    ELSE insert_and_report(s, env.report, Msg("Token stats inserted.", NoArg))

\* mutant: N = 0 is not turned away
tok_ngram_zero_accepted(s, N, K, env) ==
    insert_and_report(s, env.report, Msg("N-grams inserted.", NoArg))

tok_ngram(s, N, K, env) ==
    IF N = 0 THEN Ret([s EXCEPT !.status_ = Msg("tok: N must be >=1", NoArg)], "false")
    ELSE insert_and_report(s, env.report, Msg("N-grams inserted.", NoArg))

tok_export(s, outpath, env) ==
    LET w == write_text_file(s.files, outpath, env.report)
    IN IF w.ok THEN Ret([s EXCEPT !.files = w.fs, !.status_ = Msg("Exported token stats -> ", outpath)], "false")
       ELSE Ret([s EXCEPT !.status_ = Msg("tok: export failed", NoArg)], "false")

\* mutant: the limit is not capped at MAXL
tok_perm_uncapped(s, len, limit0) ==
    LET out == compose_permutations(len, limit0)
    IN IF out = <<>> THEN Ret([s EXCEPT !.status_ = Msg("tok: no permutations", NoArg)], "false")
       ELSE insert_and_report(s, out, Msg("Permutations inserted.", NoArg))

tok_perm(s, len, limit0) ==
    LET limit == IF limit0 > MAXL THEN MAXL ELSE limit0
        out == compose_permutations(len, limit)
    IN IF out = <<>> THEN Ret([s EXCEPT !.status_ = Msg("tok: no permutations", NoArg)], "false")
       ELSE insert_and_report(s, out, Msg("Permutations inserted.", NoArg))

tok_command(s, parts, env) ==
    IF Len(parts) = 1 THEN Ret([s EXCEPT !.status_ = Msg("tok: usage -> :tok stats|ngram|export|perm ...", NoArg)], "false")
    ELSE IF parts[2] = <<"s", "t", "a", "t", "s">> THEN
        (IF Len(parts) >= 3 THEN tok_stats(s, TRUE, parts[3], env) ELSE tok_stats(s, FALSE, NoArg, env))
    ELSE IF parts[2] = <<"n", "g", "r", "a", "m">> THEN
        LET N == IF Len(parts) >= 3 THEN stoul(parts[3]) ELSE [ok |-> TRUE, val |-> 2]
            K == IF Len(parts) >= 4 THEN stoul(parts[4]) ELSE [ok |-> TRUE, val |-> 20]
        IN IF ~N.ok \/ ~K.ok THEN Ret(s, "throw") ELSE tok_ngram(s, N.val, K.val, env)
    ELSE IF parts[2] = <<"e", "x", "p", "o", "r", "t">> THEN
        (IF Len(parts) < 3 THEN Ret([s EXCEPT !.status_ = Msg("tok: export <file.json>", NoArg)], "false")
         ELSE tok_export(s, parts[3], env))
    ELSE IF parts[2] = <<"p", "e", "r", "m">> THEN
        (IF Len(parts) < 4 THEN Ret([s EXCEPT !.status_ = Msg("tok: perm <len> <limit>", NoArg)], "false")
         ELSE LET len == stoull(parts[3])
                  limit == stoull(parts[4])
              IN IF ~len.ok \/ ~limit.ok THEN Ret(s, "throw") ELSE tok_perm(s, len.val, limit.val))
    ELSE Ret([s EXCEPT !.status_ = Msg("tok: unknown subcommand", NoArg)], "false")

\* mutant: `q` quits whatever the dirty flag
quit_command_unguarded(s) == Ret(s, "true")

\* the branch of `q`
quit_command(s) ==
    IF s.dirty_ THEN Ret([s EXCEPT !.status_ = Msg("Unsaved changes! Use :q! to force quit.", NoArg)], "false")
    ELSE Ret(s, "true")

execute_command(s, raw, env) ==
    LET t == trim_copy(raw)
        parts == split_ws(t)
        cmd == IF parts = <<>> THEN <<>> ELSE parts[1]
    IN IF t = <<>> THEN Ret([s EXCEPT !.status_ = Msg("", NoArg)], "false")
       ELSE IF cmd = <<"q">> THEN quit_command(s)
       ELSE IF cmd = <<"q", "!">> THEN Ret(s, "true")
       ELSE IF cmd = <<"w">> THEN
            Ret(save_file(s, IF Len(parts) >= 2 THEN parts[2] ELSE s.filename_), "false")
       ELSE IF cmd = <<"o">> THEN
            (IF Len(parts) < 2 THEN Ret([s EXCEPT !.status_ = Msg("Usage: :o <filename>", NoArg)], "false")
             ELSE IF s.dirty_ THEN Ret([s EXCEPT !.status_ = Msg("Unsaved changes! Save with :w first.", NoArg)], "false")
             ELSE Ret(open_file(s, parts[2]), "false"))
       ELSE IF cmd = <<"h", "e", "l", "p">> THEN Ret(s, "false")
       ELSE IF cmd = <<"c", "p", "p">> THEN command_cpp(s, env)
       ELSE IF Head(cmd) = "!" THEN
            LET rest == Tail(t)
            IN command_shell(s, IF rest # <<>> /\ Head(rest) = " " THEN Tail(rest) ELSE rest, env)
       ELSE IF cmd = <<"t", "o", "k">> THEN tok_command(s, parts, env)
       ELSE Ret([s EXCEPT !.status_ = Msg("Unknown command: ", cmd)], "false")

\* show_help() reads one key before it returns
ReadsHelpKey(raw) ==
    LET parts == split_ws(trim_copy(raw))
    IN parts # <<>> /\ parts[1] = <<"h", "e", "l", "p">>

(* ------------------------------- inputs ------------------------------- *)
\* the keys pressed in Edit mode and the second bytes of extended keys
EditKeys == {ESC, ENTER, BS, DEL, EXT, TAB, 104, 106, 107, 108, 97}
ExtCodes == {UP, DOWN, LEFT, RIGHT, DELETE}

\* the command lines typed in Command mode: file and quit commands,
\* and the analytics commands
IOLines ==
    {<<"q">>,
     <<"q", "!">>,
     <<"w">>,
     <<"w", " ", "f">>,
     <<"w", " ", "d">>,
     <<"o">>,
     <<"o", " ", "f">>,
     <<"o", " ", "d">>,
     <<"!", "x">>,
     <<"q", ":">>}
TokLines ==
    {<<"t", "o", "k">>,
     <<"t", "o", "k", " ", "n", "g", "r", "a", "m", " ", "x">>,
     <<"t", "o", "k", " ", "n", "g", "r", "a", "m", " ", "0">>,
     <<"t", "o", "k", " ", "p", "e", "r", "m", " ", "1", " ", "x">>,
     <<"t", "o", "k", " ", "p", "e", "r", "m", " ", "0", " ", "1">>,
     <<"t", "o", "k", " ", "z", "z">>}

\* the texts the shell, the compiler and the analytics reports produce
Texts == {<<>>, <<"a">>}
Reports == {<<"a">>}
NoEnv == [text1 |-> <<>>, text2 |-> <<>>, tmp_ok |-> TRUE, report |-> <<"a">>]
\* the answers that matter to the command line raw
EnvsFor(raw) ==
    LET parts == split_ws(trim_copy(raw))
    IN IF parts = <<>> THEN {NoEnv}
       ELSE IF parts[1] = <<"c", "p", "p">>
            THEN [text1 : Texts, text2 : Texts, tmp_ok : BOOLEAN, report : {<<"a">>}]
       ELSE IF Head(parts[1]) = "!"
            THEN [text1 : Texts, text2 : {<<>>}, tmp_ok : {TRUE}, report : {<<"a">>}]
       ELSE IF parts[1] = <<"t", "o", "k">>
            THEN [text1 : {<<>>}, text2 : {<<>>}, tmp_ok : {TRUE}, report : Reports]
       ELSE {NoEnv}

\* the key show_help() waits for
HelpKeys == {97}

\* the window sizes the console reports
ConsoleRows == {4}
ConsoleCols == {20}

\* the initial files and the program argument
InitialFiles == {<<>>}
InitialArgs == {FileF, DirD}

(* ------------------------------ the session --------------------------- *)
Install(t) ==
    /\ buffer_' = t.buffer_ /\ filename_' = t.filename_ /\ status_' = t.status_
    /\ mode_' = t.mode_ /\ cmdbuf_' = t.cmdbuf_ /\ dirty_' = t.dirty_
    /\ cur_y_' = t.cur_y_ /\ cur_x_' = t.cur_x_
    /\ off_y_' = t.off_y_ /\ off_x_' = t.off_x_
    /\ files' = t.files
    /\ UNCHANGED <<fn_arg, fn_ret>>

\* the loop of run() comes round: ensure_visible() before the next draw()
Render(t) ==
    \E rows \in ConsoleRows, cols \in ConsoleCols : Install(ensure_visible(t, rows, cols))

\* Indexing the buffer outside its bounds is undefined: the process dies, or
\* it goes on with whatever it read as the cursor.  t holds the writes the
\* handler makes before that point.
Garbage == {-1, 0, 1}
Undefined(t) ==
    \/ pc' = "crashed" /\ Install(t)
    \/ /\ pc' = "running"
       /\ \E y \in Garbage, x \in Garbage : Render([t EXCEPT !.cur_y_ = y, !.cur_x_ = x])

\* the byte _getch() returns: the unread second byte of an extended key, else a new key
Getch(keys) == IF pending # 0 THEN {pending} ELSE keys
Second(ch) == IF ch = EXT THEN ExtCodes ELSE {0}

\* Editor::Editor(initial) and the first lines of run()
construct(initial, fs) ==
    LET s0 == [buffer_ |-> <<>>, filename_ |-> IF initial # NoInitial THEN initial ELSE Untitled,
               status_ |-> Msg("ready", NoArg), mode_ |-> "EDIT", cmdbuf_ |-> <<>>,
               dirty_ |-> FALSE, cur_y_ |-> 0, cur_x_ |-> 0, off_y_ |-> 0, off_x_ |-> 0,
               files |-> fs]
        s1 == IF initial # NoInitial /\ read_text_file(fs, initial).ok
              THEN [open_file(s0, s0.filename_) EXCEPT !.dirty_ = FALSE]
              ELSE [s0 EXCEPT !.buffer_ = << <<>> >>]
    IN [s1 EXCEPT !.status_ = Msg("Press ESC for COMMAND mode (:help)", NoArg)]

InitialFileSystems ==
    {<<>>} \cup {[p \in {FileF} |-> c] : c \in InitialFiles}

Fields(t) ==
    /\ buffer_ = t.buffer_ /\ filename_ = t.filename_ /\ status_ = t.status_
    /\ mode_ = t.mode_ /\ cmdbuf_ = t.cmdbuf_ /\ dirty_ = t.dirty_
    /\ cur_y_ = t.cur_y_ /\ cur_x_ = t.cur_x_
    /\ off_y_ = t.off_y_ /\ off_x_ = t.off_x_
    /\ files = t.files

Starts(t) == Fields(t) /\ NoCall

Init ==
    /\ \E initial \in InitialArgs, fs \in InitialFileSystems,
          rows \in ConsoleRows, cols \in ConsoleCols :
            Starts(ensure_visible(construct(initial, fs), rows, cols))
    /\ pending = 0
    /\ pc = "running"

\* edit_loop() on key ch (second byte c2), then the next ensure_visible()
EditKey(ch, c2) ==
    /\ pc = "running" /\ mode_ = "EDIT"
    /\ EditDefined(Ed, ch)
    /\ LET e == edit_loop(Ed, ch, c2)
           t == with_ed(Self, e)
       IN Render(IF ch = ESC
                 THEN [t EXCEPT !.mode_ = "COMMAND", !.status_ = Msg("", NoArg), !.cmdbuf_ = <<>>]
                 ELSE t)
    /\ pending' = 0
    /\ pc' = pc

\* edit_loop() on a buffer or cursor it cannot index
EditUndefined(ch) ==
    /\ pc = "running" /\ mode_ = "EDIT"
    /\ ~EditDefined(Ed, ch)
    /\ Undefined(IF ch = ESC
                 THEN [Self EXCEPT !.mode_ = "COMMAND", !.status_ = Msg("", NoArg), !.cmdbuf_ = <<>>]
                 ELSE Self)
    /\ pending' = 0

\* the printable key ch keeps the command line inside the typed command lines
Typable(ch, lines) ==
    /\ Printable(ch) /\ ch # 96
    /\ \/ ch = 58 /\ cmdbuf_ = <<>>
       \/ \E l \in lines : IsPrefix(Append(cmdbuf_, Chr[ch]), l)

\* mutant: ":" is dropped wherever it is typed
command_key_drops_colon(s, ch) ==
    LET s0 == [s EXCEPT !.status_ = Msg(":", s.cmdbuf_)]
    IN IF ch = ESC THEN [s0 EXCEPT !.mode_ = "EDIT", !.status_ = Msg("", NoArg), !.cmdbuf_ = <<>>]
       ELSE IF ch = BS THEN
           (IF s.cmdbuf_ # <<>>
            THEN [s0 EXCEPT !.cmdbuf_ = SubSeq(s.cmdbuf_, 1, Len(s.cmdbuf_) - 1)]
            ELSE s0)
       ELSE IF ch = 58 THEN s0
       ELSE IF Printable(ch) THEN [s0 EXCEPT !.cmdbuf_ = Append(s.cmdbuf_, Chr[ch])]
       ELSE s0

\* mutant: a key that is appended to the command line marks the Document changed
command_key_marks_dirty(s, ch) ==
    LET s0 == [s EXCEPT !.status_ = Msg(":", s.cmdbuf_)]
    IN IF ch = ESC THEN [s0 EXCEPT !.mode_ = "EDIT", !.status_ = Msg("", NoArg), !.cmdbuf_ = <<>>]
       ELSE IF ch = BS THEN
           (IF s.cmdbuf_ # <<>>
            THEN [s0 EXCEPT !.cmdbuf_ = SubSeq(s.cmdbuf_, 1, Len(s.cmdbuf_) - 1)]
            ELSE s0)
       ELSE IF ch = 58 /\ s.cmdbuf_ = <<>> THEN s0
       ELSE IF Printable(ch)
            THEN [s0 EXCEPT !.cmdbuf_ = Append(s.cmdbuf_, Chr[ch]), !.dirty_ = TRUE]
       ELSE s0

\* command_loop() on a key ch other than the commit key
command_key(s, ch) ==
    LET s0 == [s EXCEPT !.status_ = Msg(":", s.cmdbuf_)]
    IN IF ch = ESC THEN [s0 EXCEPT !.mode_ = "EDIT", !.status_ = Msg("", NoArg), !.cmdbuf_ = <<>>]
       ELSE IF ch = BS THEN
           (IF s.cmdbuf_ # <<>>
            THEN [s0 EXCEPT !.cmdbuf_ = SubSeq(s.cmdbuf_, 1, Len(s.cmdbuf_) - 1)]
            ELSE s0)
       ELSE IF ch = 58 /\ s.cmdbuf_ = <<>> THEN s0
       ELSE IF Printable(ch) THEN [s0 EXCEPT !.cmdbuf_ = Append(s.cmdbuf_, Chr[ch])]
       ELSE s0

\* command_loop() on a key other than the commit key (after 224 the second
\* byte c2 stays unread), then the next ensure_visible()
CommandKey(ch, c2) ==
    /\ pc = "running" /\ mode_ = "COMMAND"
    /\ ch # ENTER /\ ch # LF
    /\ Render(command_key(Self, ch))
    /\ pending' = c2
    /\ pc' = pc

\* mutant: the command line survives the commit
Commit_keeps_line(env, hk, c2) ==
    /\ pc = "running" /\ mode_ = "COMMAND"
    /\ LET s0 == [Self EXCEPT !.status_ = Msg(":", cmdbuf_)]
           r == execute_command(s0, cmdbuf_, env)
           t == [r.s EXCEPT !.mode_ = "EDIT"]
       IN CASE r.out = "true" -> pc' = "quit" /\ Install(t) /\ pending' = 0
            [] r.out = "false" ->
                 /\ pc' = pc /\ Render(t)
                 /\ pending' = IF ReadsHelpKey(cmdbuf_) THEN c2 ELSE 0
            [] r.out = "throw" -> pc' = "crashed" /\ Install(s0) /\ pending' = 0
            [] r.out = "ub" -> Undefined(t) /\ pending' = 0

\* command_loop() on the commit key: execute_command(cmdbuf_)
Commit(env, hk, c2) ==
    /\ pc = "running" /\ mode_ = "COMMAND"
    /\ LET s0 == [Self EXCEPT !.status_ = Msg(":", cmdbuf_)]
           r == execute_command(s0, cmdbuf_, env)
           t == [r.s EXCEPT !.cmdbuf_ = <<>>, !.mode_ = "EDIT"]
       IN CASE r.out = "true" -> pc' = "quit" /\ Install(t) /\ pending' = 0
            [] r.out = "false" ->
                 /\ pc' = pc /\ Render(t)
                 /\ pending' = IF ReadsHelpKey(cmdbuf_) THEN c2 ELSE 0
            [] r.out = "throw" -> pc' = "crashed" /\ Install(s0) /\ pending' = 0
            [] r.out = "ub" -> Undefined(t) /\ pending' = 0

EditStep ==
    \E ch \in Getch(EditKeys) : \E c2 \in Second(ch) : EditKey(ch, c2) /\ FitsSession(buffer_')
EditUndefinedStep == \E ch \in Getch(EditKeys) : EditUndefined(ch)
CommandKeyStep(lines) ==
    \E ch \in Getch({ESC, BS, EXT, TAB} \cup {k \in 32..126 : Typable(k, lines)}) :
        \E c2 \in Second(ch) :
            /\ ch = EXT => Typable(c2, lines)
            /\ CommandKey(ch, c2)
CommitStep ==
    \E ch \in Getch({ENTER}) : ch \in {ENTER, LF} /\
        \E env \in EnvsFor(cmdbuf_), hk \in HelpKeys : \E c2 \in Second(hk) :
            Commit(env, hk, c2) /\ FitsSession(buffer_')

\* a session of file and quit commands
Next == EditStep \/ EditUndefinedStep \/ CommandKeyStep(IOLines) \/ CommitStep

Spec == Init /\ [][Next]_vars

\* a session of analytics commands on a document that is not empty
InitTok == Init /\ buffer_ # <<>>
NextTok == EditStep \/ CommandKeyStep(TokLines) \/ CommitStep

SpecTok == InitTok /\ [][NextTok]_vars

(* ------------------ the edit operations on their own ------------------ *)
\* every document of at most MaxLines lines of at most MaxCol characters
LinesOver(chars) == UNION {[1..n -> chars] : n \in 0..MaxCol}
DocsOver(chars) == UNION {[1..n -> LinesOver(chars)] : n \in 1..MaxLines}

\* a session on the document buf with the cursor at (y, x)
session_on(buf, y, x, dirty) ==
    [buffer_ |-> buf, filename_ |-> FileF, status_ |-> Msg("", NoArg), mode_ |-> "EDIT",
     cmdbuf_ |-> <<>>, dirty_ |-> dirty, cur_y_ |-> y, cur_x_ |-> x, off_y_ |-> 0, off_x_ |-> 0,
     files |-> <<>>]

\* the keys of the edit operations and the texts insert_text_block is given
EditOpKeys == {ENTER, LF, BS, DEL, EXT, TAB, 104, 106, 107, 108, 97, 32, 126}
BlockTexts == {<<>>, <<"b">>, <<NL>>, <<"b", CR, NL>>, <<CR>>, <<"b", NL, "b">>}

InitEdit ==
    /\ \E buf \in DocsOver({"a"}), dirty \in BOOLEAN :
         \E y \in 0..(Len(buf) - 1) : \E x \in 0..Len(buf[y + 1]) :
            Starts(session_on(buf, y, x, dirty))
    /\ pending = 0
    /\ pc = "running"

EditOp == \E ch \in EditOpKeys : \E c2 \in Second(ch) : EditKey(ch, c2) /\ Fits(buffer_')

\* insert_text_block(text), as the commands that paste output call it
InsertBlockText(text) ==
    /\ pc = "running" /\ mode_ = "EDIT"
    /\ CursorOK(Ed)
    /\ LET e == insert_text_block(Ed, text)
       IN Install(with_ed(Self, e))
    /\ UNCHANGED <<pending, pc>>

InsertBlock == \E text \in BlockTexts : InsertBlockText(text) /\ Fits(buffer_')

NextEdit == EditOp \/ InsertBlock

SpecEdit == InitEdit /\ [][NextEdit]_vars

(* ----------------------- saving and loading again --------------------- *)
\* every document of a size within MaxDoc
SessionDocs ==
    {split_block(t, <<>>) : t \in UNION {[1..n -> {"a", NL}] : n \in 0..MaxDoc}}

RoundTripLines == {<<"w", " ", "f">>, <<"o", " ", "f">>}

\* a clean or dirty document without "\n" or "\r" in its lines, no file yet
\* and no key but ESC in Edit mode: the file f, once there, was written by
\* `w f` from the document of that moment
InitRoundTrip ==
    /\ \E buf \in SessionDocs, dirty \in BOOLEAN :
         Starts([session_on(buf, 0, 0, dirty) EXCEPT !.filename_ = Untitled])
    /\ pending = 0
    /\ pc = "running"

\* ESC in Edit mode
EditEscape == EditKey(ESC, 0) /\ FitsSession(buffer_')

NextRoundTrip == EditEscape \/ CommandKeyStep(RoundTripLines) \/ CommitStep

SpecRoundTrip == InitRoundTrip /\ [][NextRoundTrip]_vars

(* ------------------- arrow keys on the command line ------------------- *)
\* the command lines that the second bytes of the arrow and Delete keys
\* (72 'H', 80 'P', 75 'K', 77 'M', 83 'S') can spell
ArrowLines == {<<"H">>, <<"q", "K">>, <<"S", "P">>, <<"M">>}

NextArrow == EditStep \/ CommandKeyStep(ArrowLines) \/ CommitStep

SpecArrow == InitTok /\ [][NextArrow]_vars

(* ------------------- commands that only report ------------------- *)
\* command lines whose whole outcome is a status message
ReportLines ==
    {<<" ">>,
     <<"x">>,
     <<"o">>,
     <<"t", "o", "k">>,
     <<"t", "o", "k", " ", "z">>,
     <<"t", "o", "k", " ", "n", "g", "r", "a", "m", " ", "0">>,
     <<"t", "o", "k", " ", "p", "e", "r", "m", " ", "0", " ", "1", "0">>,
     <<"t", "o", "k", " ", "p", "e", "r", "m", " ", "1", "1", " ", "1">>,
     <<"t", "o", "k", " ", "p", "e", "r", "m", " ", "1", " ", "0">>}

NextReport == EditStep \/ CommandKeyStep(ReportLines) \/ CommitStep

SpecReport == InitTok /\ [][NextReport]_vars

(* --------------------------- `tok perm` alone -------------------------- *)
\* the lengths and limits given to `tok perm`, and the command line giving them
PermLens == {0, 1, 2, 3, 8, 10, 11}
PermLimits == {0, 1, 2, 3, 4, 9, 10, 27, 28, 100, 4999, 5000, 5001}

RECURSIVE ToDigits(_)
ToDigits(n) ==
    IF n < 10 THEN <<Digits[n + 1]>> ELSE ToDigits(n \div 10) \o <<Digits[(n % 10) + 1]>>

PermLine(len, limit) ==
    <<"t", "o", "k", " ", "p", "e", "r", "m", " ">> \o ToDigits(len) \o <<" ">> \o ToDigits(limit)

\* Command mode, the command line typed, on the Document [""] or ["a"]
InitPerm ==
    /\ \E len \in PermLens, limit \in PermLimits, buf \in {<< <<>> >>, << <<"a">> >>} :
         Starts([session_on(buf, 0, 0, FALSE) EXCEPT
                    !.mode_ = "COMMAND", !.cmdbuf_ = PermLine(len, limit),
                    !.status_ = Msg(":", PermLine(len, limit))])
    /\ pending = 0
    /\ pc = "running"

\* the commit key, whatever the size of the Document afterwards
PermCommit == \E env \in EnvsFor(cmdbuf_), hk \in HelpKeys : Commit(env, hk, 0)

SpecPerm == InitPerm /\ [][PermCommit]_vars

(* ---------------------------- top_ngrams alone ------------------------- *)
\* the tokens, and every token sequence, n and topk within the bounds
TokAlphabet == {<<"a">>, <<"b">>}
TokenSeqs == UNION {[1..t -> TokAlphabet] : t \in 0..MaxToks}

\* an Editor that no key reaches while the function is called
Idle ==
    /\ Fields(session_on(<< <<>> >>, 0, 0, FALSE))
    /\ pending = 0
    /\ pc = "running"

InitNgram ==
    /\ Idle
    /\ fn_arg \in [toks : TokenSeqs, n : 0..MaxN, topk : 0..MaxK]
    /\ fn_ret = [done |-> FALSE, val |-> <<>>]

CallNgram ==
    /\ ~fn_ret.done
    /\ \E v \in top_ngrams(fn_arg.toks, fn_arg.n, fn_arg.topk) :
         fn_ret' = [done |-> TRUE, val |-> v]
    /\ UNCHANGED <<session_vars, fn_arg>>

SpecNgram == InitNgram /\ [][CallNgram]_vars

(* ------------------------ token statistics alone ---------------------- *)
\* the contents: letters of both cases, a digit, the underscore, separators
ContentChars == {"a", "Z", "9", "_", " ", "-"}
Contents == UNION {[1..n -> ContentChars] : n \in 0..MaxContent}

InitStats ==
    /\ Idle
    /\ fn_arg \in [fn : {"tokenize_words", "compute_token_stats"}, content : Contents]
    /\ fn_ret = [done |-> FALSE, val |-> <<>>]

CallTokenize ==
    /\ ~fn_ret.done /\ fn_arg.fn = "tokenize_words"
    /\ fn_ret' = [done |-> TRUE, val |-> tokenize_words(fn_arg.content)]
    /\ UNCHANGED <<session_vars, fn_arg>>

CallStats ==
    /\ ~fn_ret.done /\ fn_arg.fn = "compute_token_stats"
    /\ fn_ret' = [done |-> TRUE, val |-> compute_token_stats(fn_arg.content)]
    /\ UNCHANGED <<session_vars, fn_arg>>

NextStats == CallTokenize \/ CallStats

SpecStats == InitStats /\ [][NextStats]_vars

(* ------------------------ cursor movement alone ----------------------- *)
\* the arrow keys and their letter equivalents
MoveCodes == {UP, DOWN, LEFT, RIGHT}
MoveKeys == {EXT, 104, 106, 107, 108}

\* every document of at most MaxMoveLines lines of at most MaxMoveCol
\* characters, clean or dirty, with the cursor where a session starts: (0,0)
MoveDocs ==
    UNION {[1..n -> UNION {[1..k -> {"a"}] : k \in 0..MaxMoveCol}] : n \in 1..MaxMoveLines}

InitMove ==
    /\ \E buf \in MoveDocs, dirty \in BOOLEAN, rows \in ConsoleRows, cols \in ConsoleCols :
         Starts(ensure_visible(session_on(buf, 0, 0, dirty), rows, cols))
    /\ pending = 0
    /\ pc = "running"

\* edit_loop() on a movement key
MoveStep ==
    \E ch \in MoveKeys : \E c2 \in (IF ch = EXT THEN MoveCodes ELSE {0}) : EditKey(ch, c2)

SpecMove == InitMove /\ [][MoveStep]_vars

(* ------------------------- ensure_visible alone ------------------------ *)
\* the window sizes the console reports: too small to be believed (taken as
\* 24 rows, 80 columns), the smallest believed, and larger
ViewRows == {3, 4, 5}
ViewCols == {19, 20, 21}

\* a cursor and offsets that are not negative, as every earlier
\* ensure_visible() and every clamp of a document with lines leave them
InitView ==
    /\ Idle
    /\ fn_arg \in [cur_y_ : 0..MaxViewCur, cur_x_ : 0..MaxViewCur,
                   off_y_ : 0..MaxViewOff, off_x_ : 0..MaxViewOff,
                   rows : ViewRows, cols : ViewCols]
    /\ fn_ret = [done |-> FALSE, val |-> <<>>]

CallEnsureVisible ==
    /\ ~fn_ret.done
    /\ LET t == ensure_visible(fn_arg, fn_arg.rows, fn_arg.cols)
       IN fn_ret' = [done |-> TRUE, val |-> [off_y_ |-> t.off_y_, off_x_ |-> t.off_x_]]
    /\ UNCHANGED <<session_vars, fn_arg>>

SpecView == InitView /\ [][CallEnsureVisible]_vars

(* ---------------------- an edit, then backspace ----------------------- *)
\* the keys that reach insert_char (first, middle and last printable byte)
\* and the two keys that reach newline
UndoKeys == {32, 98, 126, ENTER, LF}

\* every document of at most MaxUndoLines lines of at most MaxUndoCol
\* characters with every valid cursor, clean or dirty
UndoDocs ==
    UNION {[1..n -> UNION {[1..k -> {"a"}] : k \in 0..MaxUndoCol}] : n \in 1..MaxUndoLines}
UndoStates ==
    {e \in [buf : UndoDocs, y : 0..(MaxUndoLines - 1), x : 0..MaxUndoCol, dirty : BOOLEAN] :
        CursorOK(e)}

InitUndo ==
    /\ Idle
    /\ fn_arg \in [e : UndoStates, ch : UndoKeys]
    /\ fn_ret = [done |-> FALSE, val |-> <<>>]

\* edit_loop() on the key, from the given document and cursor
CallEditLoop ==
    /\ ~fn_ret.done /\ fn_ret.val = <<>>
    /\ fn_ret' = [done |-> FALSE, val |-> edit_loop(fn_arg.e, fn_arg.ch, 0)]
    /\ UNCHANGED <<session_vars, fn_arg>>

\* edit_loop() on backspace, from what the first key left
CallBackspace ==
    /\ ~fn_ret.done /\ fn_ret.val # <<>>
    /\ fn_ret' = [done |-> TRUE, val |-> edit_loop(fn_ret.val, BS, 0)]
    /\ UNCHANGED <<session_vars, fn_arg>>

NextUndo == CallEditLoop \/ CallBackspace

SpecUndo == InitUndo /\ [][NextUndo]_vars

\* the commit key pressed on the command line `line`
Commits(line) == cmdbuf_ = line /\ CommitStep

(* ------------------------------- claims ------------------------------- *)

\* C1: the Document is never empty: in every state of a running session the
\* buffer holds at least one line.  (Violated: a readable zero-byte file,
\* given as the program argument or to `o`, leaves the buffer without lines.)
C1_NeverEmpty == pc = "running" => Len(buffer_) >= 1

\* C2: from a non-empty Document with a valid cursor, after every edit
\* operation 0 <= row < line_count and 0 <= col <= len(line[row]).
C2_CursorInvariant ==
    /\ Len(buffer_) >= 1
    /\ 0 <= cur_y_ /\ cur_y_ < Len(buffer_)
    /\ 0 <= cur_x_ /\ cur_x_ <= Len(buffer_[cur_y_ + 1])

\* insert_text_block has pasted "b\r\n": the cursor is on the new last line
C2_Witness ==
    /\ buffer_ = << <<"b">>, <<>> >> /\ cur_y_ = 1 /\ cur_x_ = 0 /\ dirty_

\* C3: saving a Document with `w f` and loading the written file with
\* `o f` gives back the saved line sequence.  (Violated: a Document that is
\* one empty line, or ends in two empty lines, comes back one line shorter.)
C3_RoundTrip ==
    [][(Commits(<<"o", " ", "f">>) /\ ~dirty_ /\ FileF \in DOMAIN files) => buffer_' = buffer_]_vars

\* C9 (as claimed): in Edit mode every printable key 32..126 is inserted at
\* the cursor column, the column advances by 1 and dirty becomes true.
C9_EveryPrintableInserts ==
    [][\A ch \in {k \in EditOpKeys : Printable(k)} :
         EditKey(ch, 0) =>
            /\ buffer_' = [buffer_ EXCEPT ![cur_y_ + 1] = str_insert(@, cur_x_, Chr[ch])]
            /\ cur_y_' = cur_y_ /\ cur_x_' = cur_x_ + 1
            /\ dirty_']_vars

\* C9 (amended): in Edit mode every printable key other than h, j, k, l is
\* inserted at the cursor column, the column advances by 1 and dirty becomes
\* true; h, j, k, l move the cursor and leave the Document alone.
C9_PrintableInserts ==
    [][\A ch \in {k \in EditOpKeys : Printable(k)} :
         EditKey(ch, 0) =>
            IF ch \in {104, 106, 107, 108}
            THEN buffer_' = buffer_ /\ dirty_' = dirty_
            ELSE /\ buffer_' = [buffer_ EXCEPT ![cur_y_ + 1] = str_insert(@, cur_x_, Chr[ch])]
                 /\ cur_y_' = cur_y_ /\ cur_x_' = cur_x_ + 1
                 /\ dirty_']_vars

\* the key "~" has been typed into a line
C9_Witness ==
    /\ dirty_ /\ Len(buffer_) >= 1
    /\ \E i \in 1..Len(buffer_) : buffer_[i] = <<"~">>
    /\ cur_x_ = 1

\* the words of the command line
Words(raw) == split_ws(trim_copy(raw))
FirstWord(raw) == IF Words(raw) = <<>> THEN <<>> ELSE Words(raw)[1]

\* the step is a commit that read a file into the Document / wrote the file
Loaded == CommitStep /\ status_'[1] = "Opened "
SavedOK == CommitStep /\ status_'[1] = "Saved "

\* C4: the dirty flag tracks unsaved mutations: a step that changes the
\* Document leaves dirty true unless it is a successful load; dirty goes from
\* true to false only in a successful `w` or a load; a successful `w` leaves
\* the Document as it is and a load leaves it clean.  Hence whenever dirty is
\* false the Document is the one of the last successful save or load.
\* (Violated: `o <path>` with an unreadable path on a clean Document replaces
\* the Document by one empty line and leaves dirty false.)
C4_DirtyTracks ==
    [][/\ (buffer_' # buffer_ => (dirty_' \/ Loaded))
       /\ ((dirty_ /\ ~dirty_') => (SavedOK \/ Loaded))
       /\ (SavedOK => (buffer_' = buffer_ /\ ~dirty_'))
       /\ (Loaded => ~dirty_')]_vars

Unchanged_Document == buffer_' = buffer_ /\ cur_y_' = cur_y_ /\ cur_x_' = cur_x_

\* C5: while dirty, committing `q` does not end the session and committing
\* `o <path>` does not load: Document, cursor, filename and dirty flag stay
\* and the status reports the unsaved changes; a session that quits with a
\* dirty Document was given `q!`.
C5_DirtyBlocks ==
    [][(CommitStep /\ dirty_) =>
         /\ FirstWord(cmdbuf_) = <<"q">> =>
              /\ pc' = "running" /\ Unchanged_Document
              /\ filename_' = filename_ /\ dirty_' /\ files' = files
              /\ status_' = Msg("Unsaved changes! Use :q! to force quit.", NoArg)
         /\ (FirstWord(cmdbuf_) = <<"o">> /\ Len(Words(cmdbuf_)) >= 2) =>
              /\ pc' = "running" /\ Unchanged_Document
              /\ filename_' = filename_ /\ dirty_' /\ files' = files
              /\ status_' = Msg("Unsaved changes! Save with :w first.", NoArg)
         /\ pc' = "quit" => FirstWord(cmdbuf_) = <<"q", "!">>]_vars

\* `q` has been refused on a dirty Document
C5_Witness ==
    /\ pc = "running" /\ dirty_ /\ mode_ = "EDIT"
    /\ status_ = Msg("Unsaved changes! Use :q! to force quit.", NoArg)

\* C6: every dispatcher branch is total: no committed command line ends the
\* session abnormally.  (Violated: std::stoul / std::stoull throw on the
\* arguments of `tok ngram x` and `tok perm 1 x` and nothing catches.)
C6_NoAbnormalEnd == pc \in {"running", "quit"}

\* C7: `o <path>` on a clean Document with an unreadable path leaves line
\* sequence, cursor and filename as they were.  (Violated: open_file clears
\* the buffer and takes the path as the name of a new file.)
C7_FailedOpenKeepsDocument ==
    [][(Commits(<<"o", " ", "d">>) /\ ~dirty_) =>
         (Unchanged_Document /\ filename_' = filename_)]_vars

\* C8: `w [path]` never quits and never changes Document or cursor; a
\* successful write clears dirty and makes the written path (the argument,
\* else the current filename) the filename; a failed write leaves dirty and
\* filename and reports the save error.
C8_Write ==
    [][(CommitStep /\ FirstWord(cmdbuf_) = <<"w">>) =>
         LET path == IF Len(Words(cmdbuf_)) >= 2 THEN Words(cmdbuf_)[2] ELSE filename_
         IN /\ pc' = "running" /\ Unchanged_Document
            /\ IF path \notin Unwritable
               THEN /\ ~dirty_' /\ filename_' = path
                    /\ path \in DOMAIN files' /\ files'[path] = join_lines(buffer_, 1)
                    /\ status_' = Msg("Saved ", path)
               ELSE /\ dirty_' = dirty_ /\ filename_' = filename_ /\ files' = files
                    /\ status_' = Msg("Error: could not save ", path)]_vars

\* a write to the unwritable path has failed on a dirty Document named f
C8_Witness ==
    /\ pc = "running" /\ dirty_ /\ filename_ = FileF
    /\ status_ = Msg("Error: could not save ", DirD)

\* the printable keys typed in the sessions
CommandKeyCodes ==
    {k \in (32..126) \ {96} : k = 58 \/ \E l \in IOLines : \E i \in 1..Len(l) : l[i] = Chr[k]}

\* C10 (as claimed): in Command mode every printable key appends to the
\* command line whatever its content, and backspace removes the last
\* character (no-op on an empty command line).
C10_EveryPrintableAppends ==
    [][/\ \A ch \in CommandKeyCodes : CommandKey(ch, 0) => cmdbuf_' = Append(cmdbuf_, Chr[ch])
       /\ CommandKey(BS, 0) =>
            cmdbuf_' = IF cmdbuf_ = <<>> THEN <<>> ELSE SubSeq(cmdbuf_, 1, Len(cmdbuf_) - 1)]_vars

\* C10 (amended): in Command mode every printable key appends to the command
\* line, except ":" typed on an empty command line, which is dropped;
\* backspace removes the last character (no-op on an empty command line).
C10_PrintableAppends ==
    [][/\ \A ch \in CommandKeyCodes :
            CommandKey(ch, 0) =>
               cmdbuf_' = IF ch = 58 /\ cmdbuf_ = <<>> THEN <<>> ELSE Append(cmdbuf_, Chr[ch])
       /\ CommandKey(BS, 0) =>
            cmdbuf_' = IF cmdbuf_ = <<>> THEN <<>> ELSE SubSeq(cmdbuf_, 1, Len(cmdbuf_) - 1)]_vars

\* ":" has been appended to a command line that was not empty
C10_Witness == mode_ = "COMMAND" /\ cmdbuf_ = <<"q", ":">>

Unchanged_CommandLine ==
    /\ cmdbuf_' = cmdbuf_ /\ mode_' = mode_ /\ Unchanged_Document

\* C11: in Command mode every key other than a printable character,
\* backspace, escape and commit is ignored: after the prefix byte 224, after
\* the scan-code byte that follows it, and after a control key such as TAB,
\* command line, mode, Document and cursor are as before.  (Violated: the
\* scan-code byte of an arrow or Delete key is a printable byte and is
\* appended to the command line.)
C11_OtherKeysIgnored ==
    [][/\ \A c2 \in ExtCodes : CommandKey(EXT, c2) => Unchanged_CommandLine
       /\ CommandKey(TAB, 0) => Unchanged_CommandLine
       /\ (pending # 0 /\ CommandKey(pending, 0)) => Unchanged_CommandLine]_vars

\* C12: the session starts in Edit with an empty command line; escape in
\* Edit moves to Command with command line and status cleared and the
\* Document as it was; escape in Command moves to Edit and clears the command
\* line without dispatching (Document, dirty flag, filename and files as they
\* were, session running); a commit that does not end the session moves to
\* Edit with the command line cleared.  In every state with mode = Edit the
\* command line is empty.
C12_ModeTransitions ==
    /\ mode_ = "EDIT" /\ cmdbuf_ = <<>>
    /\ [](mode_ = "EDIT" => cmdbuf_ = <<>>)
    /\ [][/\ EditKey(ESC, 0) =>
               /\ mode_' = "COMMAND" /\ cmdbuf_' = <<>> /\ status_' = Msg("", NoArg)
               /\ Unchanged_Document /\ dirty_' = dirty_
          /\ CommandKey(ESC, 0) =>
               /\ mode_' = "EDIT" /\ cmdbuf_' = <<>> /\ pc' = pc
               /\ Unchanged_Document /\ dirty_' = dirty_
               /\ filename_' = filename_ /\ files' = files
          /\ (CommitStep /\ pc' = "running") =>
               (mode_' = "EDIT" /\ cmdbuf_' = <<>>)]_vars

\* a commit has brought the session back to Edit with the outcome in the status
C12_Witness ==
    /\ pc = "running" /\ mode_ = "EDIT" /\ cmdbuf_ = <<>>
    /\ status_[1] \notin {"", "Press ESC for COMMAND mode (:help)"}

\* the lines joined by "\n", the text without "\r", the number of "\n"
RECURSIVE Joined(_)
Joined(lines) ==
    IF Len(lines) = 1 THEN lines[1] ELSE lines[1] \o <<NL>> \o Joined(Tail(lines))
WithoutCR(text) == SelectSeq(text, LAMBDA c : c # CR)
Newlines(text) == Len(SelectSeq(text, LAMBDA c : c = NL))

\* C13: insert_block(text) with a non-empty text of N segments at (r, c),
\* the current line being P followed by T: afterwards lines r..r+N-1 joined
\* by "\n" are P + (text without "\r") + T, the lines before r and after the
\* region are as before, the line count grew by N-1, the cursor is at row
\* r+N-1 at the column immediately before T, and dirty is true.
C13_InsertBlock ==
    [][\A text \in BlockTexts \ {<<>>} :
          InsertBlockText(text) =>
             LET r == cur_y_
                 N == Newlines(text) + 1
                 P == substr_to(buffer_[r + 1], cur_x_)
                 T == substr_from(buffer_[r + 1], cur_x_)
             IN /\ Len(buffer_') = Len(buffer_) + N - 1
                /\ Joined(SubSeq(buffer_', r + 1, r + N)) = P \o WithoutCR(text) \o T
                /\ \A i \in 1..r : buffer_'[i] = buffer_[i]
                /\ \A i \in (r + 2)..Len(buffer_) : buffer_'[i + N - 1] = buffer_[i]
                /\ cur_y_' = r + N - 1
                /\ cur_x_' = Len(buffer_'[r + N]) - Len(T)
                /\ dirty_']_vars

\* "b\nb" has been pasted into an empty line: two lines, the cursor behind the second
C13_Witness ==
    /\ buffer_ = << <<"b">>, <<"b">> >> /\ cur_y_ = 1 /\ cur_x_ = 1 /\ dirty_

\* the line without its byte number i (from 1); lines i and i+1 made one
WithoutByte(line, i) == SubSeq(line, 1, i - 1) \o SubSeq(line, i + 1, Len(line))
JoinedAt(buf, i) ==
    SubSeq(buf, 1, i - 1) \o <<buf[i] \o buf[i + 1]>> \o SubSeq(buf, i + 2, Len(buf))

\* C19: backspace with column > 0 removes exactly the byte before the cursor
\* and decrements the column; with column = 0 and row > 0 it appends the
\* current line to the previous one, removes the current line and puts the
\* cursor on the previous row at that line's former length; at (0,0) it
\* changes nothing, including the dirty flag.
C19_Backspace ==
    [][EditKey(BS, 0) =>
         IF cur_x_ > 0 THEN
             /\ buffer_' = [buffer_ EXCEPT ![cur_y_ + 1] = WithoutByte(@, cur_x_)]
             /\ cur_y_' = cur_y_ /\ cur_x_' = cur_x_ - 1
         ELSE IF cur_y_ > 0 THEN
             /\ buffer_' = JoinedAt(buffer_, cur_y_)
             /\ Len(buffer_') = Len(buffer_) - 1
             /\ cur_y_' = cur_y_ - 1 /\ cur_x_' = Len(buffer_[cur_y_])
         ELSE
             /\ buffer_' = buffer_ /\ cur_y_' = cur_y_ /\ cur_x_' = cur_x_
             /\ dirty_' = dirty_]_vars

\* a pasted "b\r\n" has been undone by backspace at the start of the second line
C19_Witness ==
    /\ buffer_ = << <<"b">> >> /\ cur_y_ = 0 /\ cur_x_ = 1 /\ dirty_

\* C20: delete_forward never moves the cursor: with column < line length it
\* removes exactly the byte at the cursor; at the end of a line that has a
\* following line it appends that line and removes it; at the end of the last
\* line it changes nothing, including the dirty flag.
C20_DeleteForward ==
    [][(EditKey(DEL, 0) \/ EditKey(EXT, DELETE)) =>
         /\ cur_y_' = cur_y_ /\ cur_x_' = cur_x_
         /\ IF cur_x_ < Len(buffer_[cur_y_ + 1]) THEN
                buffer_' = [buffer_ EXCEPT ![cur_y_ + 1] = WithoutByte(@, cur_x_ + 1)]
            ELSE IF cur_y_ + 1 < Len(buffer_) THEN
                /\ buffer_' = JoinedAt(buffer_, cur_y_ + 1)
                /\ Len(buffer_') = Len(buffer_) - 1
            ELSE
                buffer_' = buffer_ /\ dirty_' = dirty_]_vars

\* Delete at the end of an empty first line has pulled up the line "~"
C20_Witness ==
    /\ buffer_ = << <<"~">> >> /\ cur_y_ = 0 /\ cur_x_ = 0 /\ dirty_

RECURSIVE Power(_, _)
Power(b, n) == IF n = 0 THEN 1 ELSE b * Power(b, n - 1)

\* the len-digit base-3 numeral of i, digits 0,1,2 written "1","2","3"
Numeral(i, len) ==
    [j \in 1..len |-> SAFE_ALPHABET[((i \div Power(3, len - j)) % 3) + 1]]

\* min(limit, 3^len, 5000) for 1 <= len <= 10, else 0
PermCount(len, limit) ==
    IF len = 0 \/ len > 10 \/ limit = 0 THEN 0
    ELSE Min2(limit, Min2(Power(3, len), 5000))

\* C14: `tok perm <len> <limit>` generates exactly min(limit, 3^len, 5000)
\* strings when 1 <= len <= 10 and limit >= 1: the i-th (from 0) is the
\* len-digit base-3 numeral of i, so they are pairwise distinct and in
\* counting order; they become the lines at the cursor, one per line.  For
\* len = 0, len > 10 or limit = 0 nothing is generated and the Document stays.
C14_Permutations ==
    [][\A len \in PermLens, limit \in PermLimits :
          (cmdbuf_ = PermLine(len, limit) /\ PermCommit) =>
             LET k == PermCount(len, limit)
             IN /\ Len(buffer_') = Len(buffer_) + k
                /\ \A i \in 1..k : buffer_'[i] = Numeral(i - 1, len)
                /\ Cardinality({buffer_'[i] : i \in 1..k}) = k
                /\ buffer_'[k + 1] = buffer_[1]
                /\ status_' = IF k = 0 THEN Msg("tok: no permutations", NoArg)
                             ELSE Msg("Permutations inserted.", NoArg)]_vars

\* `tok perm 8 5001` has run on [""]: 5000 strings, "31323122" (4999 in base 3) the last
C14_Witness ==
    /\ Len(buffer_) = 5001
    /\ buffer_[1] = <<"1", "1", "1", "1", "1", "1", "1", "1">>
    /\ buffer_[5000] = <<"3", "1", "3", "2", "3", "1", "2", "2">>
    /\ buffer_[5001] = <<>>
    /\ status_ = Msg("Permutations inserted.", NoArg)

\* C15: commands that only report leave the editing state untouched:
\* committing an empty or blank line, an unknown command, `o` without
\* argument, `tok` without or with an unknown subcommand, `tok ngram 0`, or
\* `tok perm` with len 0, len > 10 or limit 0 leaves Document, cursor, filename,
\* dirty flag and files unchanged, does not quit, and (except for the empty
\* line) sets a non-empty status message.
C15_ReportOnly ==
    [][\A line \in ReportLines \cup {<<>>} :
          Commits(line) =>
             /\ pc' = "running" /\ Unchanged_Document
             /\ filename_' = filename_ /\ dirty_' = dirty_ /\ files' = files
             /\ IF trim_copy(line) = <<>> THEN status_' = Msg("", NoArg)
                ELSE status_'[1] # ""]_vars

\* `tok ngram 0` has been turned away on a dirty Document
C15_Witness ==
    /\ pc = "running" /\ mode_ = "EDIT" /\ dirty_
    /\ status_ = Msg("tok: N must be >=1", NoArg)

RECURSIVE SumCounts(_)
SumCounts(r) == IF r = <<>> THEN 0 ELSE r[1][2] + SumCounts(Tail(r))

\* C16: top-K N-grams of T tokens: for N >= 1 and T >= N the result has
\* min(K, number of distinct N-grams) distinct entries, each with its exact
\* number of occurrences as a window of N tokens (all distinct N-grams
\* together: T-N+1), in non-increasing count order, and no omitted N-gram has
\* a greater count than an included one; for N = 0 or T < N it is empty.  For
\* [a,b,a,b,a], N = 2, the top-1 entry is (a,b) or (b,a) with count 2.
C16_TopNgrams ==
    fn_ret.done =>
       LET toks == fn_arg.toks
           N == fn_arg.n
           T == Len(toks)
           r == fn_ret.val
           Starts_ == 1..(T - N + 1)
           Grams == {SubSeq(toks, i, i + N - 1) : i \in Starts_}
           Occ(g) == Cardinality({i \in Starts_ : SubSeq(toks, i, i + N - 1) = g})
           Included == {r[i][1] : i \in 1..Len(r)}
       IN IF N = 0 \/ T < N THEN r = <<>>
          ELSE /\ Len(r) = Min2(fn_arg.topk, Cardinality(Grams))
               /\ \A i \in 1..Len(r) : r[i][1] \in Grams /\ r[i][2] = Occ(r[i][1])
               /\ \A i, j \in 1..Len(r) : i # j => r[i][1] # r[j][1]
               /\ \A i, j \in 1..Len(r) : i < j => r[i][2] >= r[j][2]
               /\ \A g \in Grams \ Included : \A i \in 1..Len(r) : Occ(g) <= r[i][2]
               /\ Len(r) = Cardinality(Grams) => SumCounts(r) = T - N + 1
               /\ (toks = <<<<"a">>, <<"b">>, <<"a">>, <<"b">>, <<"a">>>> /\ N = 2 /\ fn_arg.topk = 1)
                    => r \in {<< << <<<<"a">>, <<"b">>>>, 2 >> >>, << << <<<<"b">>, <<"a">>>>, 2 >> >>}

\* the top bigram of [a,b,a,b,a] has come back as (b,a) with count 2
C16_Witness ==
    /\ fn_ret.done
    /\ fn_arg = [toks |-> <<<<"a">>, <<"b">>, <<"a">>, <<"b">>, <<"a">>>>, n |-> 2, topk |-> 1]
    /\ fn_ret.val = << << <<<<"b">>, <<"a">>>>, 2 >> >>

\* the maximal runs of ASCII letters, digits and underscore in s, as
\* <<first, last>> positions, and the k-th of them from the left
IsWordByte(c) ==
    \E k \in 32..126 : k # 96 /\ Chr[k] = c /\
       (k \in 48..57 \/ k \in 65..90 \/ k \in 97..122 \/ k = 95)
Runs(s) ==
    {p \in (1..Len(s)) \X (1..Len(s)) :
        /\ p[1] <= p[2]
        /\ \A k \in p[1]..p[2] : IsWordByte(s[k])
        /\ (p[1] = 1 \/ ~IsWordByte(s[p[1] - 1]))
        /\ (p[2] = Len(s) \/ ~IsWordByte(s[p[2] + 1]))}
RunNo(s, k) == CHOOSE p \in Runs(s) : Cardinality({q \in Runs(s) : q[1] < p[1]}) = k - 1

\* C17: the tokens are exactly the maximal runs of ASCII letters, digits and
\* underscore, in their order; the statistics have unique_tokens <= tokens,
\* so the ratio unique_tokens/tokens lies in [0,1]; it is 0 without tokens,
\* and with tokens it is 1 exactly when every token is distinct and 1/tokens
\* when all tokens are identical.
C17_TokenRatio ==
    fn_ret.done =>
       LET s == fn_arg.content
           r == fn_ret.val
           n == Cardinality(Runs(s))
           Words_ == {SubSeq(s, p[1], p[2]) : p \in Runs(s)}
       IN IF fn_arg.fn = "tokenize_words"
          THEN /\ Len(r) = n
               /\ \A k \in 1..n : r[k] = SubSeq(s, RunNo(s, k)[1], RunNo(s, k)[2])
          ELSE /\ r.tokens = n
               /\ r.unique_tokens = Cardinality(Words_)
               /\ r.unique_tokens <= r.tokens
               /\ 0 <= r.ttr.num /\ r.ttr.num <= r.ttr.den /\ r.ttr.den > 0
               /\ n = 0 => r.ttr.num = 0
               /\ n > 0 => /\ (r.ttr.num = r.ttr.den) <=> (Cardinality(Words_) = n)
                           /\ Cardinality(Words_) = 1 => r.ttr.num * n = r.ttr.den

\* the statistics of "a a": two identical tokens, ratio 1/2
C17_Witness ==
    /\ fn_ret.done /\ fn_arg = [fn |-> "compute_token_stats", content |-> <<"a", " ", "a">>]
    /\ fn_ret.val.tokens = 2 /\ fn_ret.val.unique_tokens = 1
    /\ fn_ret.val.ttr = [num |-> 1, den |-> 2]

\* C18: at every render of the session loop the viewport offsets are >= 0
\* and the cursor lies inside the viewport of the size the console reports:
\* row_offset <= row < row_offset + view_height and col_offset <= col <
\* col_offset + view_width.  (Violated: on the empty buffer a zero-byte file
\* leaves, edit_loop's clamp makes the row -1; ensure_visible then puts the
\* offset at 0, above the cursor.)
C18_CursorInViewport ==
    pc = "running" =>
       \E rows \in ConsoleRows, cols \in ConsoleCols :
          LET view_h == Max2(1, console_rows(rows) - 1)
              view_w == Max2(1, console_cols(cols))
          IN /\ off_y_ >= 0 /\ off_x_ >= 0
             /\ off_y_ <= cur_y_ /\ cur_y_ < off_y_ + view_h
             /\ off_x_ <= cur_x_ /\ cur_x_ < off_x_ + view_w

\* the movement keys: the arrows and h, j, k, l
KeyLeft == EditKey(EXT, LEFT) \/ EditKey(104, 0)
KeyDown == EditKey(EXT, DOWN) \/ EditKey(106, 0)
KeyUp == EditKey(EXT, UP) \/ EditKey(107, 0)
KeyRight == EditKey(EXT, RIGHT) \/ EditKey(108, 0)

\* C21: cursor moves never change the Document or the dirty flag; left at
\* column 0 of row > 0 goes to the end of the previous line; right at the
\* end of a line with a following line goes to column 0 of the next line;
\* up/down change the row by one and set the column to min(column, length
\* of the destination line); left at (0,0), right at the end of the last
\* line, up on row 0 and down on the last row leave the row unchanged.
C21_CursorMoves ==
    [][/\ (KeyLeft \/ KeyRight \/ KeyUp \/ KeyDown) =>
            buffer_' = buffer_ /\ dirty_' = dirty_
       /\ KeyLeft =>
            /\ (cur_x_ = 0 /\ cur_y_ > 0) =>
                  cur_y_' = cur_y_ - 1 /\ cur_x_' = Len(buffer_[cur_y_])
            /\ (cur_x_ = 0 /\ cur_y_ = 0) => cur_y_' = cur_y_
       /\ KeyRight =>
            /\ (cur_x_ = Len(buffer_[cur_y_ + 1]) /\ cur_y_ + 1 < Len(buffer_)) =>
                  cur_y_' = cur_y_ + 1 /\ cur_x_' = 0
            /\ (cur_x_ = Len(buffer_[cur_y_ + 1]) /\ cur_y_ + 1 = Len(buffer_)) =>
                  cur_y_' = cur_y_
       /\ KeyUp =>
            IF cur_y_ > 0
            THEN cur_y_' = cur_y_ - 1 /\ cur_x_' = Min2(cur_x_, Len(buffer_[cur_y_]))
            ELSE cur_y_' = cur_y_
       /\ KeyDown =>
            IF cur_y_ + 1 < Len(buffer_)
            THEN cur_y_' = cur_y_ + 1 /\ cur_x_' = Min2(cur_x_, Len(buffer_[cur_y_ + 2]))
            ELSE cur_y_' = cur_y_]_vars

\* the cursor has come from (0,0) to the end of the last line, below a
\* longer line and above nothing
C21_Witness ==
    /\ buffer_ = << <<"a", "a">>, <<>>, <<"a">> >>
    /\ cur_y_ = 2 /\ cur_x_ = 1 /\ ~dirty_

\* the offset that shows the coordinate cur in a viewport of `size` cells
\* that starts at off, moved by the least amount
Shifted(cur, off, size) ==
    IF cur < off THEN cur
    ELSE IF cur >= off + size THEN cur - size + 1
    ELSE off

\* C22: recompute_viewport shifts by the minimum amount: a cursor inside the
\* current viewport rectangle leaves the offsets unchanged; above/left of it
\* the offset becomes the cursor coordinate; below/right of it the offset
\* becomes cursor - view_size + 1, so the cursor lands on the nearest edge.
C22_MinimalShift ==
    fn_ret.done =>
       LET view_h == Max2(1, console_rows(fn_arg.rows) - 1)
           view_w == Max2(1, console_cols(fn_arg.cols))
       IN /\ fn_ret.val.off_y_ = Shifted(fn_arg.cur_y_, fn_arg.off_y_, view_h)
          /\ fn_ret.val.off_x_ = Shifted(fn_arg.cur_x_, fn_arg.off_x_, view_w)
          /\ fn_arg.cur_y_ < fn_arg.off_y_ => fn_ret.val.off_y_ = fn_arg.cur_y_
          /\ fn_arg.cur_y_ >= fn_arg.off_y_ + view_h =>
                fn_arg.cur_y_ = fn_ret.val.off_y_ + view_h - 1
          /\ fn_arg.cur_x_ < fn_arg.off_x_ => fn_ret.val.off_x_ = fn_arg.cur_x_
          /\ fn_arg.cur_x_ >= fn_arg.off_x_ + view_w =>
                fn_arg.cur_x_ = fn_ret.val.off_x_ + view_w - 1

\* row 0 above a viewport that starts at row 2, column 24 right of a
\* viewport of 20 columns that starts at column 1
C22_Witness ==
    /\ fn_ret.done
    /\ fn_arg = [cur_y_ |-> 0, cur_x_ |-> 24, off_y_ |-> 2, off_x_ |-> 1, rows |-> 4, cols |-> 20]
    /\ fn_ret.val = [off_y_ |-> 0, off_x_ |-> 5]

\* C23: while the session is in Command mode, no key other than commit
\* changes the Document, the cursor, the filename or the dirty flag: typing,
\* backspacing and cancelling a command line (and the bytes of an arrow or
\* Delete key) are invisible to the editing state.
C23_CommandKeysFrame ==
    [][\A ch \in (0..255) \ {ENTER, LF, 96} :
         CommandKey(ch, pending') =>
            Unchanged_Document /\ filename_' = filename_ /\ dirty_' = dirty_]_vars

\* a command line typed, with the scan-code bytes of Delete and Down, over a
\* changed Document of two empty lines with the cursor at (1,0)
C23_Witness ==
    /\ mode_ = "COMMAND" /\ cmdbuf_ = <<"S", "P">>
    /\ buffer_ = << <<>>, <<>> >> /\ cur_y_ = 1 /\ cur_x_ = 0 /\ dirty_

\* C24: backspace undoes the immediately preceding insert_char or newline:
\* from any valid state, insert_char(c) followed by backspace, and newline
\* followed by backspace, restore exactly the previous line sequence and
\* cursor position (the dirty flag stays true).  The edit in between has
\* changed the line sequence and the cursor and set the dirty flag.
C24_BackspaceUndoes ==
    /\ (~fn_ret.done /\ fn_ret.val # <<>>) =>
          /\ fn_ret.val.dirty
          /\ fn_ret.val.buf # fn_arg.e.buf
          /\ <<fn_ret.val.y, fn_ret.val.x>> # <<fn_arg.e.y, fn_arg.e.x>>
    /\ fn_ret.done =>
          /\ fn_ret.val.buf = fn_arg.e.buf
          /\ fn_ret.val.y = fn_arg.e.y /\ fn_ret.val.x = fn_arg.e.x
          /\ fn_ret.val.dirty

\* "~" typed in the middle of the second line of a clean document and
\* removed again, and the first line split in the middle and joined again
C24_Witness ==
    /\ fn_ret.done
    /\ \/ fn_arg = [e |-> [buf |-> << <<>>, <<"a", "a">> >>, y |-> 1, x |-> 1, dirty |-> FALSE],
                    ch |-> 126]
       \/ fn_arg = [e |-> [buf |-> << <<"a", "a">>, <<>> >>, y |-> 0, x |-> 1, dirty |-> FALSE],
                    ch |-> ENTER]
    /\ fn_ret.val = [fn_arg.e EXCEPT !.dirty = TRUE]

====
